---- MODULE Spec2Model ----
(***************************************************************************)
(* A model of the poker ELO rating engine (src/algo.py, class PokerELO):    *)
(* the store of ratings and last-played dates, and update_elo, called      *)
(* session after session as the example usage and src/main.py call it.     *)
(*                                                                         *)
(* Ratings, expected scores and K-factors are Python floats in the source. *)
(* They are modelled as fixed-point integers with Scale units per 1.0      *)
(* (six decimals), rounded to nearest with ties away from zero, so that    *)
(* rounding is sign-symmetric as IEEE-754 round-to-nearest is.  Every      *)
(* intermediate product or quotient is computed by splitting so that it    *)
(* stays inside 32-bit integers.                                           *)
(***************************************************************************)
EXTENDS Integers, Sequences, FiniteSets

VARIABLES
    roster,        \* the players given to PokerELO.__init__
    elo_ratings,   \* self.elo_ratings : player -> rating (fixed point)
    last_played,   \* self.last_played : player -> date or None
    now,           \* the value datetime.now() returns at the next call
    log            \* the calls made so far, each with the state it started from

vars == <<roster, elo_ratings, last_played, now, log>>

----------------------------------------------------------------------------
(* Bounds of the model *)

MaxSessions == 2      \* calls of update_elo in one behaviour

(* Program constants *)

INITIAL_ELO == 1500
K_BASE == 30

(* Fixed-point resolution: Scale units per 1.0 *)

Base == 10 ^ 3
Scale == Base * Base

\* an optional date: None, or the one-element tuple of a date
None == <<>>

\* the players given to the constructor; "D" first appears in a later session
Roster == {"A", "B", "C"}
Players == Roster \cup {"D"}

\* session_1 and session_2 of the example usage, and a full-table push
session_1 == << <<"A", 10>>, <<"B", 5>>, <<"C", -15>> >>
session_2 == << <<"A", -30>>, <<"B", 20>>, <<"D", 10>> >>
push == << <<"A", 5>>, <<"B", 5>>, <<"C", 5>> >>

----------------------------------------------------------------------------
(* Fixed-point arithmetic *)

Abs(x) == IF x < 0 THEN -x ELSE x

Sgn(x) == IF x < 0 THEN -1 ELSE IF x > 0 THEN 1 ELSE 0

\* round(x * y / Scale) for x, y >= 0, without forming x * y
MulScaled(x, y) ==
    LET xh == x \div Base
        xl == x % Base
        yh == y \div Base
        yl == y % Base
        mid == xh * yl + xl * yh
        low == xl * yl + (Scale \div 2)
    IN  xh * yh + ((mid + (low \div Base)) \div Base)

\* a * b for fixed-point a, b of either sign
FMul(a, b) == Sgn(a) * Sgn(b) * MulScaled(Abs(a), Abs(b))

RECURSIVE DivDigits(_, _, _, _)
\* long division: n more decimal digits of q + r / b, then round to nearest
DivDigits(q, r, b, n) ==
    IF n = 0
    THEN IF 2 * r >= b THEN q + 1 ELSE q
    ELSE DivDigits(q * 10 + ((r * 10) \div b), (r * 10) % b, b, n - 1)

\* round(a * Scale / b) for a >= 0, b > 0
DivScaled(a, b) == DivDigits(a \div b, a % b, b, 6)

\* a / b for fixed-point a and b # 0
FDiv(a, b) == Sgn(a) * Sgn(b) * DivScaled(Abs(a), Abs(b))

\* round(a / n) for an integer n > 0
RDiv(a, n) ==
    Sgn(a) * ((Abs(a) \div n) + (IF 2 * (Abs(a) % n) >= n THEN 1 ELSE 0))

RECURSIVE ExpSeries(_, _, _, _)
\* sum of the Taylor series of exp(t), from the k-th term on
ExpSeries(t, term, k, acc) ==
    IF term = 0 THEN acc
    ELSE ExpSeries(t, RDiv(MulScaled(term, t), k), k + 1, acc + term)

\* exp(t) for 0 <= t
Exp(t) == ExpSeries(t, Scale, 1, 0)

\* 10 ** y, the float power of expected_score: 10 ** |y| is 10 ** q times
\* exp(f * ln 10) for the integer part q and the fraction f of |y|
Pow10(y) ==
    LET q == Abs(y) \div Scale
        f == Abs(y) % Scale
        e == Exp(MulScaled(f, 2302585))
    IN  IF y >= 0 THEN e * (10 ^ q) ELSE RDiv(FDiv(Scale, e), 10 ^ q)

----------------------------------------------------------------------------
(* PokerELO *)

\* 1 / (1 + 10 ** y).  From y = 2 on the power leaves the fixed-point range
\* and the quotient is taken as 10 ** -y / (10 ** -y + 1), the same number.
Logistic(y) ==
    IF y < 2 * Scale THEN FDiv(Scale, Scale + Pow10(y))
    ELSE FDiv(Pow10(-y), Scale + Pow10(-y))

\* the exponent's sign swapped: (Ra - Rb) for (Rb - Ra)
expected_score_swapped(Ra, Rb) == Logistic(RDiv(Ra - Rb, 400))

\* def expected_score(self, Ra, Rb): return 1 / (1 + 10 ** ((Rb - Ra) / 400))
expected_score(Ra, Rb) == Logistic(RDiv(Rb - Ra, 400))

\* players = list(session_results.keys())
PlayersOf(session_results) ==
    [i \in 1..Len(session_results) |-> session_results[i][1]]

\* session_results[p], for a key p of the record
ProfitOf(session_results, p) ==
    LET i == CHOOSE k \in 1..Len(session_results) : session_results[k][1] = p
    IN  session_results[i][2]

RECURSIVE SumAbs(_, _)
SumAbs(session_results, i) ==
    IF i > Len(session_results) THEN 0
    ELSE Abs(session_results[i][2]) + SumAbs(session_results, i + 1)

\* avg_profit = np.mean(np.abs(profits)) + 1e-6; the mean of no profits is
\* nan, which no pair of an empty record ever reads
avg_profit(session_results) ==
    IF Len(session_results) = 0 THEN 0
    ELSE RDiv(SumAbs(session_results, 1) * Scale, Len(session_results))
             + (Scale \div (10 ^ 6))

\* a tie scored as a loss of the first player: the else branch left out
ActualScoreNoTie(Pa, Pb) == IF Pa > Pb THEN Scale ELSE 0

\* the comparison turned around
ActualScoreInverted(Pa, Pb) ==
    IF Pa < Pb THEN Scale ELSE IF Pa > Pb THEN 0 ELSE Scale \div 2

\* Sa of Sa, Sb = (1, 0) if Pa > Pb else (0, 1) if Pa < Pb else (0.5, 0.5)
ActualScore(Pa, Pb) ==
    IF Pa > Pb THEN Scale ELSE IF Pa < Pb THEN 0 ELSE Scale \div 2

\* K = K_BASE * (1 + abs(Pa - Pb) / avg_profit)
KFactor(Pa, Pb, avg) == K_BASE * (Scale + FDiv(Abs(Pa - Pb) * Scale, avg))

\* B rated with the base K-factor instead of the pair's K
UpdatePairBaseK(ratings, session_results, avg, A, B) ==
    LET Pa == ProfitOf(session_results, A)
        Pb == ProfitOf(session_results, B)
        Sa == ActualScore(Pa, Pb)
        Ea == expected_score(ratings[A], ratings[B])
        K  == KFactor(Pa, Pb, avg)
        afterA == [ratings EXCEPT ![A] = @ + FMul(K, Sa - Ea)]
    IN  [afterA EXCEPT ![B] = @ + FMul(K_BASE * Scale, Ea - Sa)]

\* the delta taken as expected minus actual: K * (Ea - Sa), K * (Eb - Sb)
UpdatePairReversedDelta(ratings, session_results, avg, A, B) ==
    LET Pa == ProfitOf(session_results, A)
        Pb == ProfitOf(session_results, B)
        Sa == ActualScore(Pa, Pb)
        Sb == Scale - Sa
        Ea == expected_score(ratings[A], ratings[B])
        Eb == Scale - Ea
        K  == KFactor(Pa, Pb, avg)
        afterA == [ratings EXCEPT ![A] = @ + FMul(K, Ea - Sa)]
    IN  [afterA EXCEPT ![B] = @ + FMul(K, Eb - Sb)]

\* Eb computed after A's rating was written, from the updated rating
UpdatePairStale(ratings, session_results, avg, A, B) ==
    LET Pa == ProfitOf(session_results, A)
        Pb == ProfitOf(session_results, B)
        Sa == ActualScore(Pa, Pb)
        Sb == Scale - Sa
        Ea == expected_score(ratings[A], ratings[B])
        K  == KFactor(Pa, Pb, avg)
        afterA == [ratings EXCEPT ![A] = @ + FMul(K, Sa - Ea)]
        Eb == Scale - expected_score(afterA[A], ratings[B])
    IN  [afterA EXCEPT ![B] = @ + FMul(K, Sb - Eb)]

\* the body of the inner loop for the pair (A, B), on ratings that hold both
UpdatePair(ratings, session_results, avg, A, B) ==
    LET Pa == ProfitOf(session_results, A)
        Pb == ProfitOf(session_results, B)
        Sa == ActualScore(Pa, Pb)
        Sb == Scale - Sa
        Ea == expected_score(ratings[A], ratings[B])
        Eb == Scale - Ea
        K  == KFactor(Pa, Pb, avg)
        afterA == [ratings EXCEPT ![A] = @ + FMul(K, Sa - Ea)]
    IN  [afterA EXCEPT ![B] = @ + FMul(K, Sb - Eb)]

RECURSIVE PairLoop(_, _, _, _, _)
\* for i in range(len(players)): for j in range(i + 1, len(players)): ...
\* Reading self.elo_ratings[p] for a p that is no key raises KeyError and
\* leaves the ratings as the pairs before it made them.
PairLoop(ratings, session_results, avg, i, j) ==
    LET n == Len(session_results)
        players == PlayersOf(session_results)
    IN  IF i > n THEN [elo_ratings |-> ratings, raised |-> FALSE]
        ELSE IF j > n THEN PairLoop(ratings, session_results, avg, i + 1, i + 2)
        ELSE IF players[i] \notin DOMAIN ratings \/ players[j] \notin DOMAIN ratings
             THEN [elo_ratings |-> ratings, raised |-> TRUE]
             ELSE PairLoop(UpdatePair(ratings, session_results, avg,
                                      players[i], players[j]),
                           session_results, avg, i, j + 1)

\* the date kept once set: only a player's first session recorded
SetLastPlayedOnce(last, session_results, date) ==
    LET played == {session_results[i][1] : i \in 1..Len(session_results)}
    IN  [p \in DOMAIN last \cup played |->
            IF p \in played /\ (p \notin DOMAIN last \/ last[p] = None)
            THEN date ELSE last[p]]

\* for player in players: self.last_played[player] = session_date
SetLastPlayed(last, session_results, date) ==
    LET played == {session_results[i][1] : i \in 1..Len(session_results)}
    IN  [p \in DOMAIN last \cup played |-> IF p \in played THEN date ELSE last[p]]

\* PokerELO.update_elo: the store after the call and whether it raised
update_elo(ratings, last, session_results, session_date, clock) ==
    LET date == IF session_date = None THEN <<clock>> ELSE session_date
        loop == PairLoop(ratings, session_results,
                         avg_profit(session_results), 1, 2)
    IN  [elo_ratings |-> loop.elo_ratings,
         last_played |-> IF loop.raised THEN last
                         ELSE SetLastPlayed(last, session_results, date),
         raised      |-> loop.raised]

----------------------------------------------------------------------------
(* The inputs of a call *)

\* the records that list some of the entries of m, each once, in any order
SubRecords(m) ==
    UNION { { [i \in 1..k |-> m[f[i]]] :
                f \in { g \in [1..k -> 1..Len(m)] :
                           \A i, j \in 1..k : i # j => g[i] # g[j] } } :
            k \in 0..Len(m) }

\* session records: dicts player -> profit, in insertion order
SessionRecords ==
    SubRecords(session_1) \cup SubRecords(push)
        \cup {session_2, SubSeq(session_2, 3, 3)}

\* the session_date argument: omitted, or an explicit date before any "now"
SessionDates == {None, <<1>>}

----------------------------------------------------------------------------
(* The state machine *)

\* elo_system = PokerELO(players)
Init ==
    /\ roster = Roster
    /\ elo_ratings = [p \in roster |-> INITIAL_ELO * Scale]
    /\ last_played = [p \in roster |-> None]
    /\ now = 2
    /\ log = <<>>

\* one call elo_system.update_elo(session_results, session_date)
UpdateElo(session_results, session_date) ==
    LET res == update_elo(elo_ratings, last_played, session_results,
                          session_date, now)
    IN  /\ Len(log) < MaxSessions
        /\ elo_ratings' = res.elo_ratings
        /\ last_played' = res.last_played
        /\ now' = now + 1
        /\ log' = Append(log, [session_results |-> session_results,
                               session_date    |-> session_date,
                               clock           |-> now,
                               raised          |-> res.raised,
                               elo_before      |-> elo_ratings,
                               last_before     |-> last_played])
        /\ UNCHANGED roster

Next == \E r \in SessionRecords, d \in SessionDates : UpdateElo(r, d)

Spec == Init /\ [][Next]_vars

----------------------------------------------------------------------------
(* What the claims speak of *)

Called == log # <<>>

\* the latest call, and the one before it
Last == log[Len(log)]
Prev == log[Len(log) - 1]

Returned == Called /\ ~Last.raised

Names(rec) == {rec[i][1] : i \in 1..Len(rec)}

AllEqualProfits(rec) == \A i, j \in 1..Len(rec) : rec[i][2] = rec[j][2]

\* the date a call stamps: its session_date, or the clock when it was omitted
EffectiveDate(call) ==
    IF call.session_date = None THEN <<call.clock>> ELSE call.session_date

\* agreement up to a thousandth of a rating point, far above the rounding of
\* the fixed-point arithmetic and far below any delta of a decided pair
Tol == Scale \div 1000

Near(x, y) == Abs(x - y) <= Tol

RECURSIVE SumOfDeltas(_, _, _)
\* the sum over the players in S of after[p] - before[p]
SumOfDeltas(after, before, S) ==
    IF S = {} THEN 0
    ELSE LET p == CHOOSE q \in S : TRUE
         IN  (after[p] - before[p]) + SumOfDeltas(after, before, S \ {p})

RECURSIVE Displacement(_, _, _)
\* the sum over the players in S of |after[p] - before[p]|
Displacement(after, before, S) ==
    IF S = {} THEN 0
    ELSE LET p == CHOOSE q \in S : TRUE
         IN  Abs(after[p] - before[p]) + Displacement(after, before, S \ {p})

\* the same dict listed in every insertion order
Reorderings(rec) ==
    { [i \in 1..Len(rec) |-> rec[f[i]]] :
        f \in { g \in [1..Len(rec) -> 1..Len(rec)] :
                  \A i, j \in 1..Len(rec) : i # j => g[i] # g[j] } }

\* the pairs of the record do not all get the same K-factor
KFactorsDiffer(rec) ==
    \E i, j, k, l \in 1..Len(rec) :
        /\ i < j /\ k < l
        /\ KFactor(rec[i][2], rec[j][2], avg_profit(rec))
             # KFactor(rec[k][2], rec[l][2], avg_profit(rec))

AllAtInitial(ratings) == \A p \in DOMAIN ratings : ratings[p] = INITIAL_ELO * Scale

----------------------------------------------------------------------------
(* C1 *)

\* C1: a call of update_elo with a record of zero or one entries is a no-op:
\* it does not raise, and elo_ratings and last_played are afterwards what they
\* were before the call.
C1_ShortRecordIsNoOp ==
    (Called /\ Len(Last.session_results) <= 1) =>
        /\ ~Last.raised
        /\ elo_ratings = Last.elo_before
        /\ last_played = Last.last_before

----------------------------------------------------------------------------
(* C2 *)

\* the call of the example: session_1 applied to a store with all at 1500
OnExample ==
    /\ Called
    /\ Last.session_results = session_1
    /\ AllAtInitial(Last.elo_before)

\* C2 as stated: session_1 from all-1500 ends with A = 1575, B = 1522.5 and
\* C = 1402.5, every pair rated from the ratings the call started with.
C2_ExampleEndsAtSnapshotValues ==
    OnExample =>
        /\ elo_ratings["A"] = 1575 * Scale
        /\ elo_ratings["B"] = 15225 * (Scale \div 10)
        /\ elo_ratings["C"] = 14025 * (Scale \div 10)

\* C2 as amended: session_1 from all-1500 returns with A = 1571.6048,
\* B = 1519.0608 and C = 1409.3343 (to a thousandth): only the pair (A, B) is
\* rated from 1500 against 1500; (A, C) and (B, C) read the ratings the pairs
\* before them have written.
C2_ExampleEndsAtSequentialValues ==
    OnExample =>
        /\ ~Last.raised
        /\ Near(elo_ratings["A"], 1571604830)
        /\ Near(elo_ratings["B"], 1519060849)
        /\ Near(elo_ratings["C"], 1409334321)

C2_ExampleApplied == OnExample /\ ~Last.raised /\ elo_ratings # Last.elo_before

----------------------------------------------------------------------------
(* C3 *)

\* a returned call on at least two participants who all made the same profit
PushApplied ==
    /\ Returned
    /\ Len(Last.session_results) >= 2
    /\ AllEqualProfits(Last.session_results)

EqualRatingsBefore ==
    \A p, q \in Names(Last.session_results) :
        Last.elo_before[p] = Last.elo_before[q]

\* C3 as stated: whatever the ratings are, a record of at least two
\* participants with equal profits leaves every participant's rating unchanged.
C3_PushKeepsRatings ==
    PushApplied =>
        \A p \in Names(Last.session_results) : elo_ratings[p] = Last.elo_before[p]

\* C3 as amended: a record of at least two participants with equal profits
\* leaves every rating unchanged when the participants' ratings are equal
\* before the call.
C3_PushAmongEqualsKeepsRatings ==
    (PushApplied /\ EqualRatingsBefore) => elo_ratings = Last.elo_before

C3_PushAmongEqualsApplied ==
    PushApplied /\ EqualRatingsBefore /\ Len(Last.session_results) = 3

----------------------------------------------------------------------------
(* C4 *)

\* C4: update_elo does not raise for a record of at least two participants
\* with numeric profits, a participant outside the constructor's roster
\* included.
C4_NeverRaises ==
    (Called /\ Len(Last.session_results) >= 2) => ~Last.raised

----------------------------------------------------------------------------
(* C5 *)

\* C5: once a call has ended, by returning or by raising, every participant
\* whose rating the call changed has last_played equal to the call's date.
C5_LastPlayedAtomic ==
    Called =>
        \A p \in DOMAIN elo_ratings :
            elo_ratings[p] # Last.elo_before[p] =>
                last_played[p] = EffectiveDate(Last)

----------------------------------------------------------------------------
(* C6 *)

\* C6 as stated, for the store of the current state: some record of at least
\* two participants changes the sum of the ratings.  The claim asks for one
\* store where this holds; it fails in the initial state, and
\* C6_SumOfRatingsConserved shows that it fails in every other state too.
C6_SomeSessionChangesSum ==
    \E r \in SessionRecords :
        /\ Len(r) >= 2
        /\ LET res == update_elo(elo_ratings, last_played, r, None, now)
           IN  SumOfDeltas(res.elo_ratings, elo_ratings, DOMAIN elo_ratings) # 0

\* C6 as amended: every call conserves the sum of the ratings, although the
\* K-factor differs from pair to pair: within a pair both deltas use the same
\* K and Sb - Eb = -(Sa - Ea), so they cancel.
C6_SumOfRatingsConserved ==
    Called =>
        /\ DOMAIN elo_ratings = DOMAIN Last.elo_before
        /\ SumOfDeltas(elo_ratings, Last.elo_before, DOMAIN elo_ratings) = 0

C6_UnevenKFactorsApplied ==
    /\ Returned
    /\ KFactorsDiffer(Last.session_results)
    /\ elo_ratings # Last.elo_before

----------------------------------------------------------------------------
(* C7 *)

\* a returned call on two participants with different profits whose ratings
\* were equal before it
DecidedPairOfEquals ==
    /\ Returned
    /\ Len(Last.session_results) = 2
    /\ Last.session_results[1][2] # Last.session_results[2][2]
    /\ EqualRatingsBefore

\* C7: after a call on exactly two participants with equal ratings, the one
\* with the higher profit is rated strictly higher than before and the other
\* strictly lower.
C7_WinnerUpLoserDown ==
    DecidedPairOfEquals =>
        \A i, j \in 1..2 :
            Last.session_results[i][2] > Last.session_results[j][2] =>
                LET w == Last.session_results[i][1]
                    l == Last.session_results[j][1]
                IN  /\ elo_ratings[w] > Last.elo_before[w]
                    /\ elo_ratings[l] < Last.elo_before[l]

C7_DecidedPairOfEqualsApplied ==
    DecidedPairOfEquals /\ elo_ratings # Last.elo_before

----------------------------------------------------------------------------
(* C8 *)

\* the same record, of profits not all equal, applied twice in a row
RepeatedSession ==
    /\ Len(log) >= 2
    /\ ~Prev.raised /\ ~Last.raised
    /\ Prev.session_results = Last.session_results
    /\ ~AllEqualProfits(Last.session_results)

\* the participants with the strictly highest, and the strictly lowest, profit
Top(rec) == {rec[i][1] : i \in {k \in 1..Len(rec) :
                 \A m \in 1..Len(rec) : m # k => rec[k][2] > rec[m][2]}}
Bottom(rec) == {rec[i][1] : i \in {k \in 1..Len(rec) :
                 \A m \in 1..Len(rec) : m # k => rec[k][2] < rec[m][2]}}

\* C8: update_elo is not idempotent: the ratings after the second application
\* differ from those after the first and lie further from the ratings before
\* the first (in total displacement; the strict winner is higher again and
\* the strict loser lower again).
C8_RepeatDivergesFurther ==
    RepeatedSession =>
        /\ elo_ratings # Last.elo_before
        /\ Displacement(elo_ratings, Prev.elo_before, DOMAIN elo_ratings)
             > Displacement(Last.elo_before, Prev.elo_before, DOMAIN elo_ratings)
        /\ \A p \in Top(Last.session_results) :
             elo_ratings[p] > Last.elo_before[p]
                 /\ Last.elo_before[p] > Prev.elo_before[p]
        /\ \A p \in Bottom(Last.session_results) :
             elo_ratings[p] < Last.elo_before[p]
                 /\ Last.elo_before[p] < Prev.elo_before[p]

\* session_1 twice from all-1500: A, B and C each end further from 1500
C8_ExampleRepeated ==
    /\ RepeatedSession
    /\ Last.session_results = session_1
    /\ AllAtInitial(Prev.elo_before)
    /\ \A p \in Names(session_1) :
         Abs(elo_ratings[p] - Prev.elo_before[p])
             > Abs(Last.elo_before[p] - Prev.elo_before[p])

----------------------------------------------------------------------------
(* C9 *)

\* the calls that returned and whose record held p
SessionsOf(p) ==
    {k \in 1..Len(log) : ~log[k].raised /\ p \in Names(log[k].session_results)}

LatestOf(p) == CHOOSE k \in SessionsOf(p) : \A m \in SessionsOf(p) : m <= k

\* C9: last_played[p] is None (absent, for a player the constructor was not
\* given) while no applied record held p, and otherwise the date of the
\* latest applied call whose record held p; a call whose record does not hold
\* p leaves last_played[p] as it was.
C9_LastPlayedIsLatestSession ==
    /\ \A p \in Players :
         IF SessionsOf(p) = {}
         THEN IF p \in roster THEN last_played[p] = None
              ELSE p \notin DOMAIN last_played
         ELSE last_played[p] = EffectiveDate(log[LatestOf(p)])
    /\ Called =>
         \A p \in Players \ Names(Last.session_results) :
             /\ p \in DOMAIN last_played <=> p \in DOMAIN Last.last_before
             /\ p \in DOMAIN last_played => last_played[p] = Last.last_before[p]

\* a second session overwrites the date of the players it holds and keeps
\* the date of a player only the first one held
C9_LastPlayedOverwritten ==
    /\ Len(log) >= 2
    /\ ~Prev.raised /\ ~Last.raised
    /\ EffectiveDate(Prev) # EffectiveDate(Last)
    /\ \E p \in Names(Prev.session_results) \cap Names(Last.session_results) :
         last_played[p] = EffectiveDate(Last)
    /\ \E q \in Names(Prev.session_results) \ Names(Last.session_results) :
         last_played[q] = EffectiveDate(Prev)

----------------------------------------------------------------------------
(* C10 *)

\* the ratings the latest call would have left had its record been listed as r
RatingsFor(r) ==
    update_elo(Last.elo_before, Last.last_before, r,
               Last.session_date, Last.clock).elo_ratings

SameRatings(r1, r2) ==
    /\ DOMAIN r1 = DOMAIN r2
    /\ \A p \in DOMAIN r1 : Near(r1[p], r2[p])

\* C10 as stated: the ratings after a call do not depend on the order in
\* which the record lists its participants.
C10_OrderIndependent ==
    Returned =>
        \A r \in Reorderings(Last.session_results) :
            SameRatings(RatingsFor(r), elo_ratings)

\* C10 as amended: for a record of exactly two participants the ratings after
\* the call do not depend on the order in which it lists them (up to
\* rounding).
C10_PairOrderIndependent ==
    (Returned /\ Len(Last.session_results) = 2) =>
        \A r \in Reorderings(Last.session_results) :
            SameRatings(RatingsFor(r), elo_ratings)

C10_UnequalPairApplied ==
    /\ Returned
    /\ Len(Last.session_results) = 2
    /\ Last.session_results[1][2] # Last.session_results[2][2]
    /\ ~EqualRatingsBefore
    /\ elo_ratings # Last.elo_before

====
